---- MODULE Spec2Model ----
(***************************************************************************)
(* A model of the two-tier sealed-bid auction of propose_auction.py (the   *)
(* committed/encrypted protocol: User, CBCVerifier, PBCVerifier,           *)
(* run_auction) and of ordinal_auction.py (the plaintext baseline:         *)
(* ChildBlockchain, ParentBlockchain).                                     *)
(***************************************************************************)
EXTENDS Integers, Sequences, FiniteSets, TLC

(***************************************************************************)
(* Bounds of the model.                                                    *)
(***************************************************************************)
\* longest roster register_user builds when calls come in any order
MaxRoster == 2
\* longest pool collect_encrypted_winners builds when calls come in any order
MaxPool == 2
\* largest M passed to a selection or to generate_random_values
MaxM == 2
\* most bidders of a population that is run through both protocols
MaxBidders == 3
\* most calls of ParentBlockchain.collect_winners
MaxCollect == 2
\* largest of the small messages encrypted and decrypted on their own
MaxMessage == 8
\* most multiples of a prime factor of n among those messages
MaxMultiple == 3
\* largest of the low bids two users commit to on their own
MaxCommitBid == 40

\* the User objects when calls come in any order
ObjUsers == {1, 2}
\* their bids: 14 and 45 have the same commitment 2^14 mod (2^31-1)
ObjBids == {14, 30, 45}
\* bids of a population that is run through both protocols: around the
\* wrap of 2^v mod (2^31-1) at v = 31, and one past max_safe_bid
RunBids == {14, 30, 31, 1001}
\* outcomes of random.randint(1, 100) kept by the model
RandomSample == {1, 2, 100}
\* the same, and the plaintexts of the ciphertexts handed to the PBC, where
\* the PBC verifier is called on its own
PbcRandoms == {1, 3}
PbcPlaintexts == {2, 3}
\* values of bit_length generate_keys is called with on its own; at 40 a
\* prime p with 65537 | p - 1 exists in [2^19, 2^20 - 1)
KeyBitLengths == {4, 6, 8, 16, 40}
\* outcomes of randprime(2^19, 2^20 - 1) kept for bit_length 40:
\* 917519 = 14 * 65537 + 1
WideKeyPrimes == {524309, 524341, 917519}
\* outcomes of randprime(lower, upper) kept for the verifiers' keys
SmallKeyPrimes == {131, 137}
LargeKeyPrimes == {131, 251}
KeyPrimeSample == {131, 137, 251}

(***************************************************************************)
(* Python values.                                                          *)
(***************************************************************************)
None == -1
DefaultModulus == 2147483647
max_safe_bid == 1000
DefaultE == 65537
bit_length == 16

\* bids, generators and moduli of users whose methods are called with any
\* arguments: a bid at max_safe_bid and one past it; None is the default
\* modulus
UserBids == {5, 1000, 1001}
Generators == {2, 3}
Moduli == {None, 1009}

Min(a, b) == IF a <= b THEN a ELSE b
Max(a, b) == IF a >= b THEN a ELSE b

\* s[:M + 1]
Slice_one_more(s, M) ==
    SubSeq(s, 1, IF M + 1 >= 0 THEN Min(M + 1, Len(s))
                 ELSE Max(0, Len(s) + M + 1))

\* s[:M] of a Python list
Slice(s, M) ==
    SubSeq(s, 1, IF M >= 0 THEN Min(M, Len(s)) ELSE Max(0, Len(s) + M))

(***************************************************************************)
(* Modular arithmetic.  Python integers are unbounded; the operators below *)
(* compute the same residues without an intermediate value above 2^31-1.   *)
(***************************************************************************)
\* (a + b) % m for 0 <= a, b < m
AddMod(a, b, m) == IF a >= m - b THEN a - (m - b) ELSE a + b

\* (c * x) % m for 0 <= c <= 256, 0 <= x < m, 65536 < m <= 2^31-1, without
\* a product above m: m = c*q + r gives c*x = c*(x % q) - r*(x \div q) mod m
MulSmall(c, x, m) ==
    IF c = 0 THEN 0
    ELSE LET q == m \div c
             r == m % c
             t == c * (x % q) - r * (x \div q)
         IN IF t < 0 THEN t + m ELSE t

\* (a * b) % m for 0 <= a, b < m, 65536 < m <= 2^31-1, byte by byte of b
MulModWide(a, b, m) ==
    LET b3 == b \div 16777216
        b2 == (b \div 65536) % 256
        b1 == (b \div 256) % 256
        b0 == b % 256
        s3 == MulSmall(b3, a, m)
        s2 == AddMod(MulSmall(256, s3, m), MulSmall(b2, a, m), m)
        s1 == AddMod(MulSmall(256, s2, m), MulSmall(b1, a, m), m)
    IN AddMod(MulSmall(256, s1, m), MulSmall(b0, a, m), m)

\* (a * b) % m for 0 <= a, b < m
MulMod(a, b, m) ==
    IF m <= 46340 THEN (a * b) % m
    ELSE IF m <= 65536
         THEN ((((a * (b \div 256)) % m) * 256) + a * (b % 256)) % m
         ELSE MulModWide(a, b, m)

RECURSIVE PowMod(_, _, _)
\* pow(b, e, m) for e >= 0
PowMod(b, e, m) ==
    IF m = 1 THEN 0
    ELSE IF e = 0 THEN 1
    ELSE LET h == PowMod(b, e \div 2, m)
             s == MulMod(h, h, m)
         IN \* the test has h computed before it is squared
            IF h < 0 THEN h
            ELSE IF e % 2 = 1 THEN MulMod(s, b % m, m) ELSE s

RECURSIVE Gcd(_, _)
\* the greatest common divisor of a message and n
Gcd(a, b) == IF b = 0 THEN a ELSE Gcd(b, a % b)

RECURSIVE BitLength(_)
\* int.bit_length()
BitLength(x) == IF x = 0 THEN 0 ELSE 1 + BitLength(x \div 2)

\* no k with 2 <= k and k * k <= p divides p; such a k is at most
\* 2^ceil(bit_length(p) / 2)
IsPrime(p) ==
    /\ p > 1
    /\ \A k \in 2..Min(p - 1, 2 ^ ((BitLength(p) + 1) \div 2)) :
           k > p \div k \/ p % k # 0

RECURSIVE EgcdCoef(_, _)
\* the coefficient x of a in a*x + b*y = gcd(a, b)
\* returned as <<x, y>>
EgcdCoef(a, b) ==
    IF b = 0 THEN <<1, 0>>
    ELSE LET r == EgcdCoef(b, a % b)
         IN <<r[2], r[1] - (a \div b) * r[2]>>

\* pow(e, -1, phi)
ModInverse(e, phi) == EgcdCoef(e % phi, phi)[1] % phi

(***************************************************************************)
(* generate_keys, encrypt, decrypt, vc_keygen.                             *)
(***************************************************************************)
RECURSIVE Pow2(_)
Pow2(k) == IF k = 0 THEN 1 ELSE 2 * Pow2(k - 1)

\* the primes randprime(lower, upper) can return for this bit length
KeyPrimes(bits) ==
    {p \in Pow2(bits \div 2 - 1)..(Pow2(bits \div 2) - 2) : IsPrime(p)}

\* randint(3, 999) for randprime(3, 1000)
SmallExponents_any == 3..999

\* the outcomes of randprime(3, 1000)
SmallExponents == {e \in 3..999 : IsPrime(e)}

\* the exponents e the loop "while phi % e == 0: e = randprime(3, 1000)"
\* can end with
PublicExponents(phi) ==
    IF phi % DefaultE # 0 THEN {DefaultE}
    ELSE {e \in SmallExponents : phi % e # 0}

\* ((p - 1) * (q - 1)) % e without the product
PhiMod(p, q, e) == MulMod((p - 1) % e, (q - 1) % e, e)

\* generate_keys taking n - 1 for phi, as if n were prime
KeyPairOf_prime_phi(p, q, e) ==
    LET n == p * q
        phi == n - 1
        d == ModInverse(e, phi)
    IN <<<<e, n>>, <<d, n>>>>

\* the pair generate_keys returns once it has drawn p, q and e
KeyPairOf(p, q, e) ==
    LET n == p * q
        phi == (p - 1) * (q - 1)
        d == ModInverse(e, phi)
    IN <<<<e, n>>, <<d, n>>>>

\* every pair generate_keys can return when randprime draws p and q from
\* primes: q is redrawn while q == p
generate_keys(primes) ==
    UNION {{KeyPairOf(pq[1], pq[2], e) :
                e \in PublicExponents((pq[1] - 1) * (pq[2] - 1))} :
           pq \in {x \in primes \X primes : x[1] # x[2]}}

encrypt(m, pubkey) == PowMod(m, pubkey[1], pubkey[2])

decrypt(c, privkey) == PowMod(c, privkey[1], privkey[2])

vc_keygen == 2

(***************************************************************************)
(* State.                                                                  *)
(***************************************************************************)
VARIABLES
    \* User: bid_value, commitment, encrypted_commitment, by user
    bid_value, commitment, encrypted_commitment,
    \* CBCVerifier: pubkey, privkey, users, decrypted_commitments,
    \* top_M_winners, by CBC; encrypted_winners is the list the CBC's last
    \* encrypt_winners_for_pbc returned, which its caller holds
    cbc_pubkey, cbc_privkey, users, decrypted_commitments, top_M_winners,
    encrypted_winners,
    \* PBCVerifier
    pbc_pubkey, pbc_privkey, all_encrypted_winners,
    all_decrypted_commitments, final_winners, random_values,
    vector_commitment,
    \* the exception the last call raised ("none" when it returned)
    err,
    \* ChildBlockchain: bidders, M, top_bidders, by child chain
    bidders, child_M, top_bidders,
    \* ParentBlockchain: M, all_winners; global_winners is the list the last
    \* determine_global_winners returned; collect_calls counts collect_winners
    parent_M, all_winners, global_winners, collect_calls,
    \* run_auction: the statement it is at, its arguments, its loop indices;
    \* pc is also the statement generate_keys is at when it runs on its own
    pc, run_M, bidder_counts, cbc_idx, user_idx,
    \* inputs of a function applied on its own, and its locals and outputs
    probe_in, probe_out

userVars == <<bid_value, commitment, encrypted_commitment>>
cbcVars == <<cbc_pubkey, cbc_privkey, users, decrypted_commitments,
             top_M_winners, encrypted_winners>>
pbcVars == <<pbc_pubkey, pbc_privkey, all_encrypted_winners,
             all_decrypted_commitments, final_winners, random_values,
             vector_commitment>>
ordVars == <<bidders, child_M, top_bidders, parent_M, all_winners,
             global_winners, collect_calls>>
runVars == <<pc, run_M, bidder_counts, cbc_idx, user_idx>>
probeVars == <<probe_in, probe_out>>
vars == <<userVars, cbcVars, pbcVars, err, ordVars, runVars, probeVars>>

(***************************************************************************)
(* sorted(list, key=lambda x: x[1], reverse=True): a stable sort, entries  *)
(* of equal key keep their order.                                          *)
(***************************************************************************)
RECURSIVE InsertDesc(_, _)
\* x placed into the descending list s behind every entry whose key is >= its own
InsertDesc(s, x) ==
    IF s = <<>> THEN <<x>>
    ELSE IF Head(s)[2] >= x[2] THEN <<Head(s)>> \o InsertDesc(Tail(s), x)
    ELSE <<x>> \o s

RECURSIVE SortedFrom(_, _)
SortedFrom(acc, s) ==
    IF s = <<>> THEN acc ELSE SortedFrom(InsertDesc(acc, Head(s)), Tail(s))

RECURSIVE sorted_unstable(_)
\* a descending sort that puts an entry before the earlier entries of its key
sorted_unstable(s) ==
    IF s = <<>> THEN <<>>
    ELSE LET rest == sorted_unstable(SubSeq(s, 1, Len(s) - 1))
             x == s[Len(s)]
             front == SelectSeq(rest, LAMBDA y : y[2] > x[2])
             back == SelectSeq(rest, LAMBDA y : y[2] <= x[2])
         IN front \o <<x>> \o back

sorted(s) == SortedFrom(<<>>, s)

(***************************************************************************)
(* User                                                                    *)
(***************************************************************************)
\* create_commitment with "if self.bid_value >= max_safe_bid"
create_commitment_geq(u, g, modulus) ==
    LET m == IF modulus = None THEN DefaultModulus ELSE modulus
    IN /\ IF bid_value[u] >= max_safe_bid
          THEN /\ err' = "BidOutOfRange"
               /\ UNCHANGED commitment
          ELSE /\ commitment' =
                      [commitment EXCEPT ![u] = PowMod(g, bid_value[u], m)]
               /\ err' = "none"
       /\ UNCHANGED <<bid_value, encrypted_commitment, cbcVars, pbcVars, ordVars>>

\* User.create_commitment(g, modulus)
create_commitment(u, g, modulus) ==
    LET m == IF modulus = None THEN DefaultModulus ELSE modulus
    IN /\ IF bid_value[u] > max_safe_bid
          THEN /\ err' = "BidOutOfRange"
               /\ UNCHANGED commitment
          ELSE /\ commitment' =
                      [commitment EXCEPT ![u] = PowMod(g, bid_value[u], m)]
               /\ err' = "none"
       /\ UNCHANGED <<bid_value, encrypted_commitment, cbcVars, pbcVars, ordVars>>

\* encrypt_commitment without the test "if self.commitment is None"
encrypt_commitment_unchecked(u, pubkey) ==
    /\ encrypted_commitment' =
           [encrypted_commitment EXCEPT ![u] = encrypt(commitment[u], pubkey)]
    /\ err' = "none"
    /\ UNCHANGED <<bid_value, commitment, cbcVars, pbcVars, ordVars>>

\* User.encrypt_commitment(pubkey)
encrypt_commitment(u, pubkey) ==
    /\ IF commitment[u] = None
       THEN /\ err' = "CommitmentNotCreated"
            /\ UNCHANGED encrypted_commitment
       ELSE /\ encrypted_commitment' =
                   [encrypted_commitment EXCEPT
                       ![u] = encrypt(commitment[u], pubkey)]
            /\ err' = "none"
    /\ UNCHANGED <<bid_value, commitment, cbcVars, pbcVars, ordVars>>

(***************************************************************************)
(* CBCVerifier                                                             *)
(***************************************************************************)
\* CBCVerifier.register_user(user)
register_user(c, u) ==
    /\ users' = [users EXCEPT ![c] = Append(@, u)]
    /\ err' = "none"
    /\ UNCHANGED <<userVars, cbc_pubkey, cbc_privkey, decrypted_commitments,
                   top_M_winners, encrypted_winners, pbcVars, ordVars>>

RECURSIVE DecryptRoster(_, _, _)
\* the loop of decrypt_commitments over the roster
DecryptRoster(roster, enc, privkey) ==
    IF roster = <<>> THEN <<>>
    ELSE LET u == Head(roster)
             rest == DecryptRoster(Tail(roster), enc, privkey)
         IN IF enc[u] # None
            THEN <<<<u, decrypt(enc[u], privkey)>>>> \o rest
            ELSE rest

\* decrypt_commitments without "self.decrypted_commitments = []"
decrypt_commitments_appending(c) ==
    /\ decrypted_commitments' =
           [decrypted_commitments EXCEPT
               ![c] = @ \o DecryptRoster(users[c], encrypted_commitment,
                                         cbc_privkey[c])]
    /\ err' = "none"
    /\ UNCHANGED <<userVars, cbc_pubkey, cbc_privkey, users, top_M_winners,
                   encrypted_winners, pbcVars, ordVars>>

\* CBCVerifier.decrypt_commitments()
decrypt_commitments(c) ==
    /\ decrypted_commitments' =
           [decrypted_commitments EXCEPT
               ![c] = DecryptRoster(users[c], encrypted_commitment,
                                    cbc_privkey[c])]
    /\ err' = "none"
    /\ UNCHANGED <<userVars, cbc_pubkey, cbc_privkey, users, top_M_winners,
                   encrypted_winners, pbcVars, ordVars>>

\* select_top_M with "self.top_M_winners += sorted_commitments[:M]"
select_top_M_extending(c, M) ==
    /\ top_M_winners' =
           [top_M_winners EXCEPT
               ![c] = @ \o Slice(sorted(decrypted_commitments[c]), M)]
    /\ err' = "none"
    /\ UNCHANGED <<userVars, cbc_pubkey, cbc_privkey, users,
                   decrypted_commitments, encrypted_winners, pbcVars, ordVars>>

\* CBCVerifier.select_top_M(M)
select_top_M(c, M) ==
    /\ top_M_winners' =
           [top_M_winners EXCEPT
               ![c] = Slice(sorted(decrypted_commitments[c]), M)]
    /\ err' = "none"
    /\ UNCHANGED <<userVars, cbc_pubkey, cbc_privkey, users,
                   decrypted_commitments, encrypted_winners, pbcVars, ordVars>>

\* the list encrypt_winners_for_pbc builds from top_M_winners
EncryptWinners(winners, pubkey) ==
    [i \in 1..Len(winners) |->
        <<winners[i][1], encrypt(winners[i][2], pubkey)>>]

\* encrypt_winners_for_pbc taking its entries out of top_M_winners
encrypt_winners_for_pbc_consuming(c, pubkey) ==
    /\ encrypted_winners' =
           [encrypted_winners EXCEPT
               ![c] = EncryptWinners(top_M_winners[c], pubkey)]
    /\ top_M_winners' = [top_M_winners EXCEPT ![c] = <<>>]
    /\ err' = "none"
    /\ UNCHANGED <<userVars, cbc_pubkey, cbc_privkey, users,
                   decrypted_commitments, pbcVars, ordVars>>

\* CBCVerifier.encrypt_winners_for_pbc(pbc_pubkey)
encrypt_winners_for_pbc(c, pubkey) ==
    /\ encrypted_winners' =
           [encrypted_winners EXCEPT
               ![c] = EncryptWinners(top_M_winners[c], pubkey)]
    /\ err' = "none"
    /\ UNCHANGED <<userVars, cbc_pubkey, cbc_privkey, users,
                   decrypted_commitments, top_M_winners, pbcVars, ordVars>>

(***************************************************************************)
(* PBCVerifier                                                             *)
(***************************************************************************)
\* collect_encrypted_winners putting the contribution ahead of the pool
collect_encrypted_winners_prepending(cbc_encrypted_winners) ==
    /\ all_encrypted_winners' =
           cbc_encrypted_winners \o all_encrypted_winners
    /\ err' = "none"
    /\ UNCHANGED <<ordVars, userVars, cbcVars, pbc_pubkey, pbc_privkey,
                   all_decrypted_commitments, final_winners, random_values,
                   vector_commitment>>

\* PBCVerifier.collect_encrypted_winners(cbc_encrypted_winners)
collect_encrypted_winners(cbc_encrypted_winners) ==
    /\ all_encrypted_winners' =
           all_encrypted_winners \o cbc_encrypted_winners
    /\ err' = "none"
    /\ UNCHANGED <<ordVars, userVars, cbcVars, pbc_pubkey, pbc_privkey,
                   all_decrypted_commitments, final_winners, random_values,
                   vector_commitment>>

\* the list decrypt_all_commitments builds from the pool
DecryptPool(pool, privkey) ==
    [i \in 1..Len(pool) |-> <<pool[i][1], decrypt(pool[i][2], privkey)>>]

\* PBCVerifier.decrypt_all_commitments()
decrypt_all_commitments ==
    /\ all_decrypted_commitments' =
           DecryptPool(all_encrypted_winners, pbc_privkey)
    /\ err' = "none"
    /\ UNCHANGED <<ordVars, userVars, cbcVars, pbc_pubkey, pbc_privkey,
                   all_encrypted_winners, final_winners, random_values,
                   vector_commitment>>

\* select_final_winners sorting without "reverse=True"
select_final_winners_ascending(M) ==
    /\ final_winners' =
           LET desc == sorted(all_decrypted_commitments)
           IN Slice([i \in 1..Len(desc) |-> desc[Len(desc) + 1 - i]], M)
    /\ err' = "none"
    /\ UNCHANGED <<ordVars, userVars, cbcVars, pbc_pubkey, pbc_privkey,
                   all_encrypted_winners, all_decrypted_commitments,
                   random_values, vector_commitment>>

\* PBCVerifier.select_final_winners(M)
select_final_winners(M) ==
    /\ final_winners' = Slice(sorted(all_decrypted_commitments), M)
    /\ err' = "none"
    /\ UNCHANGED <<ordVars, userVars, cbcVars, pbc_pubkey, pbc_privkey,
                   all_encrypted_winners, all_decrypted_commitments,
                   random_values, vector_commitment>>

\* the lists [random.randint(1, 100) for _ in range(M)] can be, each draw
\* taken from sample
RandomLists(M, sample) == [1..Max(M, 0) -> sample]

\* PBCVerifier.generate_random_values(M), returning rs
generate_random_values(M, rs) ==
    /\ random_values' = rs
    /\ err' = "none"
    /\ UNCHANGED <<ordVars, userVars, cbcVars, pbc_pubkey, pbc_privkey,
                   all_encrypted_winners, all_decrypted_commitments,
                   final_winners, vector_commitment>>

RECURSIVE VectorProduct_last_coefficients(_, _, _, _)
\* the loop taking the coefficients from the end of random_values:
\* r_i = self.random_values[i - len(self.final_winners)]
VectorProduct_last_coefficients(winners, rs, k, p) ==
    IF k = 0 THEN 1 % p
    ELSE MulMod(VectorProduct_last_coefficients(winners, rs, k - 1, p),
                PowMod(winners[k][2], rs[Len(rs) - Len(winners) + k], p), p)

RECURSIVE VectorProduct(_, _, _, _)
\* vector_commitment after the first k rounds of the loop of
\* compute_vector_commitment; pow(commitment, r_i) is reduced mod p before
\* the product, which leaves the residue the same
VectorProduct(winners, rs, k, p) ==
    IF k = 0 THEN 1 % p
    ELSE MulMod(VectorProduct(winners, rs, k - 1, p),
                PowMod(winners[k][2], rs[k], p), p)

\* compute_vector_commitment with "and" for "or" in its guard
compute_vector_commitment_and(p) ==
    /\ IF final_winners = <<>> /\ random_values = <<>>
       THEN /\ err' = "MissingInputs"
            /\ UNCHANGED vector_commitment
       ELSE /\ vector_commitment' =
                   VectorProduct(final_winners, random_values,
                                 Min(Len(final_winners), Len(random_values)),
                                 p)
            /\ err' = IF Len(final_winners) > Len(random_values)
                      THEN "IndexError" ELSE "none"
    /\ UNCHANGED <<ordVars, userVars, cbcVars, pbc_pubkey, pbc_privkey,
                   all_encrypted_winners, all_decrypted_commitments,
                   final_winners, random_values>>

\* PBCVerifier.compute_vector_commitment(p)
compute_vector_commitment(p) ==
    /\ IF final_winners = <<>> \/ random_values = <<>>
       THEN /\ err' = "MissingInputs"
            /\ UNCHANGED vector_commitment
       ELSE \* random_values[i] raises IndexError at the first winner
            \* without a coefficient; the product so far stays stored
            /\ vector_commitment' =
                   VectorProduct(final_winners, random_values,
                                 Min(Len(final_winners), Len(random_values)),
                                 p)
            /\ err' = IF Len(final_winners) > Len(random_values)
                      THEN "IndexError" ELSE "none"
    /\ UNCHANGED <<ordVars, userVars, cbcVars, pbc_pubkey, pbc_privkey,
                   all_encrypted_winners, all_decrypted_commitments,
                   final_winners, random_values>>

(***************************************************************************)
(* ordinal_auction.py: the plaintext baseline.  Bidder b of the baseline   *)
(* carries the same identity and bid, bid_value[b], as User b.             *)
(***************************************************************************)
\* sorted(list, key=lambda x: x.bid_value, reverse=True) of a list of bidders
sorted_by_bid(s) ==
    LET keyed == [i \in 1..Len(s) |-> <<s[i], bid_value[s[i]]>>]
        ordered == sorted(keyed)
    IN [i \in 1..Len(s) |-> ordered[i][1]]

\* select_top_M without its sort
ChildTop_unsorted(c) == Slice(bidders[c], child_M[c])

\* what ChildBlockchain.select_top_M of child c stores and returns
ChildTop(c) == Slice(sorted_by_bid(bidders[c]), child_M[c])

\* ChildBlockchain.select_top_M()
child_select_top_M(c) ==
    /\ top_bidders' = [top_bidders EXCEPT ![c] = ChildTop(c)]
    /\ err' = "none"
    /\ UNCHANGED <<userVars, cbcVars, pbcVars, bidders, child_M, parent_M,
                   all_winners, global_winners, collect_calls>>

RECURSIVE ExtendAll(_, _)
\* all_winners after the loop of collect_winners over the child chains k..N
ExtendAll(acc, k) ==
    IF k \notin DOMAIN bidders THEN acc
    ELSE ExtendAll(acc \o ChildTop(k), k + 1)

\* ParentBlockchain.collect_winners()
collect_winners ==
    /\ top_bidders' = [c \in DOMAIN bidders |-> ChildTop(c)]
    /\ all_winners' = ExtendAll(all_winners, 1)
    /\ collect_calls' = collect_calls + 1
    /\ err' = "none"
    /\ UNCHANGED <<userVars, cbcVars, pbcVars, bidders, child_M, parent_M,
                   global_winners>>

\* ParentBlockchain.determine_global_winners()
determine_global_winners ==
    /\ global_winners' = Slice(sorted_by_bid(all_winners), parent_M)
    /\ err' = "none"
    /\ UNCHANGED <<userVars, cbcVars, pbcVars, bidders, child_M, top_bidders,
                   parent_M, all_winners, collect_calls>>

(***************************************************************************)
(* Construction.                                                           *)
(***************************************************************************)
\* User(user_id, bid_value) for every user of ids, bids drawn from bids
InitUsers(ids, bids) ==
    /\ bid_value \in [ids -> bids]
    /\ commitment = [u \in ids |-> None]
    /\ encrypted_commitment = [u \in ids |-> None]

\* CBCVerifier(cbc_id) for every CBC of cbcs, and PBCVerifier()
InitVerifiers(cbcs, cbcPrimes, pbcPrimes) ==
    /\ \E keys \in [cbcs -> generate_keys(cbcPrimes)] :
          /\ cbc_pubkey = [c \in cbcs |-> keys[c][1]]
          /\ cbc_privkey = [c \in cbcs |-> keys[c][2]]
    /\ users = [c \in cbcs |-> <<>>]
    /\ decrypted_commitments = [c \in cbcs |-> <<>>]
    /\ top_M_winners = [c \in cbcs |-> <<>>]
    /\ encrypted_winners = [c \in cbcs |-> <<>>]
    /\ \E key \in generate_keys(pbcPrimes) :
          /\ pbc_pubkey = key[1]
          /\ pbc_privkey = key[2]
    /\ all_encrypted_winners = <<>>
    /\ all_decrypted_commitments = <<>>
    /\ final_winners = <<>>
    /\ random_values = <<>>
    /\ vector_commitment = None

\* ChildBlockchain(id, bidders, M) for every child, ParentBlockchain(chains, M);
\* groups[c] lists the bidders of child c
InitBaseline(groups, m) ==
    /\ bidders = groups
    /\ child_M = [c \in DOMAIN groups |-> m]
    /\ top_bidders = [c \in DOMAIN groups |-> <<>>]
    /\ parent_M = m
    /\ all_winners = <<>>
    /\ global_winners = <<>>
    /\ collect_calls = 0

\* no baseline objects
NoBaseline == InitBaseline(<<>>, 0)

\* run_auction not called
NoRun ==
    /\ pc = "idle"
    /\ run_M = 0
    /\ bidder_counts = <<>>
    /\ cbc_idx = 0
    /\ user_idx = 0

NoProbe ==
    /\ probe_in = <<>>
    /\ probe_out = <<>>

(***************************************************************************)
(* Users, one CBC verifier and the PBC verifier under any sequence of the  *)
(* calls that feed the two rankings.                                       *)
(***************************************************************************)
Init ==
    /\ InitUsers(ObjUsers, ObjBids)
    /\ InitVerifiers({1}, LargeKeyPrimes, SmallKeyPrimes)
    /\ err = "none"
    /\ NoBaseline
    /\ NoRun
    /\ NoProbe

CreateCommitment ==
    /\ \E u \in DOMAIN bid_value : create_commitment(u, vc_keygen, None)
    /\ UNCHANGED <<runVars, probeVars>>

EncryptCommitment ==
    /\ \E u \in DOMAIN bid_value, c \in DOMAIN users :
          encrypt_commitment(u, cbc_pubkey[c])
    /\ UNCHANGED <<runVars, probeVars>>

RegisterUser ==
    /\ \E c \in DOMAIN users, u \in DOMAIN bid_value :
          /\ Len(users[c]) < MaxRoster
          /\ register_user(c, u)
    /\ UNCHANGED <<runVars, probeVars>>

DecryptCommitments ==
    /\ \E c \in DOMAIN users : decrypt_commitments(c)
    /\ UNCHANGED <<runVars, probeVars>>

SelectTopM ==
    /\ \E c \in DOMAIN users, M \in 0..MaxM : select_top_M(c, M)
    /\ UNCHANGED <<runVars, probeVars>>

EncryptWinnersForPbc ==
    /\ \E c \in DOMAIN users : encrypt_winners_for_pbc(c, pbc_pubkey)
    /\ UNCHANGED <<runVars, probeVars>>

\* the PBC is handed a list that a CBC's encrypt_winners_for_pbc returned
CollectEncryptedWinners ==
    /\ \E c \in DOMAIN users :
          /\ Len(all_encrypted_winners) + Len(encrypted_winners[c]) <= MaxPool
          /\ collect_encrypted_winners(encrypted_winners[c])
    /\ UNCHANGED <<runVars, probeVars>>

DecryptAllCommitments ==
    /\ decrypt_all_commitments
    /\ UNCHANGED <<runVars, probeVars>>

SelectFinalWinners ==
    /\ \E M \in 0..MaxM : select_final_winners(M)
    /\ UNCHANGED <<runVars, probeVars>>

Next ==
    \/ CreateCommitment
    \/ EncryptCommitment
    \/ RegisterUser
    \/ DecryptCommitments
    \/ SelectTopM
    \/ EncryptWinnersForPbc
    \/ CollectEncryptedWinners
    \/ DecryptAllCommitments
    \/ SelectFinalWinners

Spec == Init /\ [][Next]_vars

(***************************************************************************)
(* The PBC verifier on its own, under any sequence of calls; the lists     *)
(* handed to collect_encrypted_winners hold one (user, ciphertext) pair.   *)
(***************************************************************************)
InitPBC ==
    /\ InitUsers(ObjUsers, {max_safe_bid})
    /\ InitVerifiers({}, SmallKeyPrimes, SmallKeyPrimes)
    /\ err = "none"
    /\ NoBaseline
    /\ NoRun
    /\ NoProbe

CollectGiven ==
    /\ \E u \in DOMAIN bid_value, m \in PbcPlaintexts :
          /\ Len(all_encrypted_winners) < MaxPool
          /\ collect_encrypted_winners(<<<<u, encrypt(m, pbc_pubkey)>>>>)
    /\ UNCHANGED <<runVars, probeVars>>

GenerateRandomValues ==
    /\ \E M \in 0..MaxM : \E rs \in RandomLists(M, PbcRandoms) :
          generate_random_values(M, rs)
    /\ UNCHANGED <<runVars, probeVars>>

ComputeVectorCommitment ==
    /\ compute_vector_commitment(pbc_pubkey[2])
    /\ UNCHANGED <<runVars, probeVars>>

NextPBC ==
    \/ CollectGiven
    \/ DecryptAllCommitments
    \/ SelectFinalWinners
    \/ GenerateRandomValues
    \/ ComputeVectorCommitment

SpecPBC == InitPBC /\ [][NextPBC]_vars

\* the moduli compute_vector_commitment is called with on its own: the n of
\* the PBC's key, as in run_auction, and a modulus below the products
VectorModuli == {7, pbc_pubkey[2]}

\* compute_vector_commitment(p); probe_in keeps the argument p
ComputeVectorCommitmentWith ==
    /\ \E p \in VectorModuli :
          /\ compute_vector_commitment(p)
          /\ probe_in' = <<p>>
    /\ UNCHANGED <<runVars, probe_out>>

NextVector ==
    \/ CollectGiven
    \/ DecryptAllCommitments
    \/ SelectFinalWinners
    \/ GenerateRandomValues
    \/ ComputeVectorCommitmentWith

SpecVector == InitPBC /\ [][NextVector]_vars

(***************************************************************************)
(* The baseline on its own, under any sequence of calls: two child chains  *)
(* that split the bidders 1..t, one parent, the same M for all three.      *)
(***************************************************************************)
\* the list a+1, ..., b
Range(a, b) == [i \in 1..(b - a) |-> a + i]

\* the ways to split the bidders 1..t, in order, into two groups
Splits(t) == {<<Range(0, a), Range(a, t)>> : a \in 0..t}

InitOrdinal ==
    /\ \E t \in 0..MaxBidders :
          /\ InitUsers(1..t, ObjBids)
          /\ \E groups \in Splits(t), m \in 0..MaxM : InitBaseline(groups, m)
    /\ InitVerifiers({}, SmallKeyPrimes, SmallKeyPrimes)
    /\ err = "none"
    /\ NoRun
    /\ NoProbe

ChildSelectTopM ==
    /\ \E c \in DOMAIN bidders : child_select_top_M(c)
    /\ UNCHANGED <<runVars, probeVars>>

CollectWinners ==
    /\ collect_calls < MaxCollect
    /\ collect_winners
    /\ UNCHANGED <<runVars, probeVars>>

DetermineGlobalWinners ==
    /\ determine_global_winners
    /\ UNCHANGED <<runVars, probeVars>>

NextOrdinal ==
    \/ ChildSelectTopM
    \/ CollectWinners
    \/ DetermineGlobalWinners

SpecOrdinal == InitOrdinal /\ [][NextOrdinal]_vars

(***************************************************************************)
(* run_auction on a population split over two CBCs (bidder_counts, as in   *)
(* run_auction_with_generated_data), after the baseline has been run on    *)
(* the same population and split.  User b and Bidder b exist from the      *)
(* start with the bid the run will draw for them.                          *)
(***************************************************************************)
\* every CBC numbering its users from 1, that is, registering the User
\* objects of the CBCs before it again
Offset_none(k) == 0

RECURSIVE Offset(_)
\* the number of users of the CBCs before CBC k
Offset(k) == IF k <= 1 THEN 0 ELSE Offset(k - 1) + bidder_counts[k - 1]

\* the loop over the CBCs ending one CBC early
StartCBC_one_short(k) ==
    IF k >= Len(bidder_counts) THEN "decrypt_all"
    ELSE IF bidder_counts[k] > 0 THEN "register" ELSE "decrypt"

\* where the loop over the CBCs goes when it reaches CBC k
StartCBC(k) ==
    IF k > Len(bidder_counts) THEN "decrypt_all"
    ELSE IF bidder_counts[k] > 0 THEN "register" ELSE "decrypt"

\* run_auction(N_cbcs, bidder_counts, M) entered, the setup phase done
InitRunOn(groups, m, cbcPrimes, pbcPrimes) ==
    /\ InitBaseline(groups, m)
    /\ InitVerifiers(DOMAIN groups, cbcPrimes, pbcPrimes)
    /\ err = "none"
    /\ pc = "baseline_collect"
    /\ run_M = m
    /\ bidder_counts = [c \in DOMAIN groups |-> Len(groups[c])]
    /\ cbc_idx = 0
    /\ user_idx = 0
    /\ NoProbe

InitRun ==
    \E t \in 0..MaxBidders :
        /\ InitUsers(1..t, RunBids)
        /\ \E groups \in Splits(t), m \in 0..MaxM :
              InitRunOn(groups, m, LargeKeyPrimes, SmallKeyPrimes)

\* parent.collect_winners()
RunBaselineCollect ==
    /\ pc = "baseline_collect"
    /\ collect_winners
    /\ pc' = "baseline_determine"
    /\ UNCHANGED <<run_M, bidder_counts, cbc_idx, user_idx, probeVars>>

\* parent.determine_global_winners()
RunBaselineDetermine ==
    /\ pc = "baseline_determine"
    /\ determine_global_winners
    /\ pc' = StartCBC(1)
    /\ cbc_idx' = 1
    /\ UNCHANGED <<run_M, bidder_counts, user_idx, probeVars>>

\* cbc.register_user(user) for the next user of CBC cbc_idx
RunRegister ==
    /\ pc = "register"
    /\ LET j == Len(users[cbc_idx]) + 1
       IN /\ register_user(cbc_idx, Offset(cbc_idx) + j)
          /\ pc' = IF j = bidder_counts[cbc_idx] THEN "commit" ELSE "register"
          /\ user_idx' = IF j = bidder_counts[cbc_idx] THEN 1 ELSE user_idx
    /\ UNCHANGED <<run_M, bidder_counts, cbc_idx, probeVars>>

\* the bidding loop catching the ValueError and going on
RunCommit_continuing ==
    /\ pc = "commit"
    /\ create_commitment(Offset(cbc_idx) + user_idx, vc_keygen, None)
    /\ pc' = "encrypt"
    /\ UNCHANGED <<run_M, bidder_counts, cbc_idx, user_idx, probeVars>>

\* user.create_commitment(g); its ValueError ends run_auction
RunCommit ==
    /\ pc = "commit"
    /\ create_commitment(Offset(cbc_idx) + user_idx, vc_keygen, None)
    /\ pc' = IF err' = "none" THEN "encrypt" ELSE "failed"
    /\ UNCHANGED <<run_M, bidder_counts, cbc_idx, user_idx, probeVars>>

\* user.encrypt_commitment(cbc.pubkey)
RunEncrypt ==
    /\ pc = "encrypt"
    /\ encrypt_commitment(Offset(cbc_idx) + user_idx, cbc_pubkey[cbc_idx])
    /\ pc' = IF err' # "none" THEN "failed"
             ELSE IF user_idx = bidder_counts[cbc_idx] THEN "decrypt"
             ELSE "commit"
    /\ user_idx' = IF user_idx = bidder_counts[cbc_idx] THEN user_idx
                   ELSE user_idx + 1
    /\ UNCHANGED <<run_M, bidder_counts, cbc_idx, probeVars>>

\* cbc.decrypt_commitments()
RunDecrypt ==
    /\ pc = "decrypt"
    /\ decrypt_commitments(cbc_idx)
    /\ pc' = "select"
    /\ UNCHANGED <<run_M, bidder_counts, cbc_idx, user_idx, probeVars>>

\* cbc.select_top_M(M)
RunSelect ==
    /\ pc = "select"
    /\ select_top_M(cbc_idx, run_M)
    /\ pc' = "encrypt_winners"
    /\ UNCHANGED <<run_M, bidder_counts, cbc_idx, user_idx, probeVars>>

\* cbc.encrypt_winners_for_pbc(pbc_verifier.pubkey)
RunEncryptWinners ==
    /\ pc = "encrypt_winners"
    /\ encrypt_winners_for_pbc(cbc_idx, pbc_pubkey)
    /\ pc' = "collect"
    /\ UNCHANGED <<run_M, bidder_counts, cbc_idx, user_idx, probeVars>>

\* the CBC's list handed to collect_encrypted_winners twice
RunCollect_twice ==
    /\ pc = "collect"
    /\ collect_encrypted_winners(encrypted_winners[cbc_idx]
                                     \o encrypted_winners[cbc_idx])
    /\ pc' = StartCBC(cbc_idx + 1)
    /\ cbc_idx' = cbc_idx + 1
    /\ UNCHANGED <<run_M, bidder_counts, user_idx, probeVars>>

\* pbc_verifier.collect_encrypted_winners(encrypted_winners)
RunCollect ==
    /\ pc = "collect"
    /\ collect_encrypted_winners(encrypted_winners[cbc_idx])
    /\ pc' = StartCBC(cbc_idx + 1)
    /\ cbc_idx' = cbc_idx + 1
    /\ UNCHANGED <<run_M, bidder_counts, user_idx, probeVars>>

\* pbc_verifier.decrypt_all_commitments()
RunDecryptAll ==
    /\ pc = "decrypt_all"
    /\ decrypt_all_commitments
    /\ pc' = "select_final"
    /\ UNCHANGED <<run_M, bidder_counts, cbc_idx, user_idx, probeVars>>

\* pbc_verifier.select_final_winners(M)
RunSelectFinal ==
    /\ pc = "select_final"
    /\ select_final_winners(run_M)
    /\ pc' = "random"
    /\ UNCHANGED <<run_M, bidder_counts, cbc_idx, user_idx, probeVars>>

\* pbc_verifier.generate_random_values(M)
RunRandom ==
    /\ pc = "random"
    /\ \E rs \in RandomLists(run_M, RandomSample) :
          generate_random_values(run_M, rs)
    /\ pc' = "vc"
    /\ UNCHANGED <<run_M, bidder_counts, cbc_idx, user_idx, probeVars>>

\* pbc_verifier.compute_vector_commitment(pbc_verifier.pubkey[1]), then
\* return final_winners, vector_commitment; its ValueError ends run_auction
RunVectorCommitment ==
    /\ pc = "vc"
    /\ compute_vector_commitment(pbc_pubkey[2])
    /\ pc' = IF err' = "none" THEN "done" ELSE "failed"
    /\ UNCHANGED <<run_M, bidder_counts, cbc_idx, user_idx, probeVars>>

NextRun ==
    \/ RunBaselineCollect
    \/ RunBaselineDetermine
    \/ RunRegister
    \/ RunCommit
    \/ RunEncrypt
    \/ RunDecrypt
    \/ RunSelect
    \/ RunEncryptWinners
    \/ RunCollect
    \/ RunDecryptAll
    \/ RunSelectFinal
    \/ RunRandom
    \/ RunVectorCommitment

SpecRun == InitRun /\ [][NextRun]_vars

\* the same on bids whose commitments 2^5 and 2^14 are below every RSA
\* modulus drawn (17947 and 32881), and the bid 30, whose commitment is not
AgreeBids == {5, 14, 30}

InitAgree ==
    \E t \in 0..MaxBidders :
        /\ InitUsers(1..t, AgreeBids)
        /\ \E groups \in Splits(t), m \in 0..MaxM :
              InitRunOn(groups, m, LargeKeyPrimes, SmallKeyPrimes)

SpecAgree == InitAgree /\ [][NextRun]_vars

(***************************************************************************)
(* The CBCs as processes that append to the PBC's pool in any order.  What *)
(* a CBC computes before its append depends on no other CBC, so the CBCs'  *)
(* own steps are taken one CBC after the other, as in run_auction, and     *)
(* each CBC holds the list its encrypt_winners_for_pbc returned; the       *)
(* appends, each of them one atomic collect_encrypted_winners, then come   *)
(* in any order.  probe_out lists the CBCs that have appended.             *)
(***************************************************************************)
\* CBC cbc_idx holds its contribution; the next CBC takes its steps
HoldContribution ==
    /\ pc = "collect"
    /\ pc' = IF cbc_idx = Len(bidder_counts) THEN "submit"
             ELSE StartCBC(cbc_idx + 1)
    /\ cbc_idx' = cbc_idx + 1
    /\ UNCHANGED <<userVars, cbcVars, pbcVars, err, ordVars, run_M,
                   bidder_counts, user_idx, probeVars>>

\* one CBC that has not appended yet calls
\* pbc_verifier.collect_encrypted_winners(encrypted_winners)
SubmitContribution ==
    /\ pc = "submit"
    /\ \E c \in DOMAIN users \ {probe_out[i] : i \in 1..Len(probe_out)} :
          /\ collect_encrypted_winners(encrypted_winners[c])
          /\ probe_out' = Append(probe_out, c)
    /\ pc' = IF Len(probe_out') = Len(bidder_counts) THEN "decrypt_all"
             ELSE "submit"
    /\ UNCHANGED <<run_M, bidder_counts, cbc_idx, user_idx, probe_in>>

NextSubmit ==
    \/ RunBaselineCollect
    \/ RunBaselineDetermine
    \/ RunRegister
    \/ RunCommit
    \/ RunEncrypt
    \/ RunDecrypt
    \/ RunSelect
    \/ RunEncryptWinners
    \/ HoldContribution
    \/ SubmitContribution
    \/ RunDecryptAll
    \/ RunSelectFinal

SpecSubmit == InitAgree /\ [][NextSubmit]_vars

\* the reference scenario: CBC 1 holds A (user 1, bid 10) and B (user 2,
\* bid 90), CBC 2 holds C (user 3, bid 50) and D (user 4, bid 200), M = 1
InitScenario ==
    /\ InitUsers(1..4, {10, 50, 90, 200})
    /\ bid_value = <<10, 90, 50, 200>>
    /\ InitRunOn(<<<<1, 2>>, <<3, 4>>>>, 1, KeyPrimeSample, KeyPrimeSample)

SpecScenario == InitScenario /\ [][NextRun]_vars

(***************************************************************************)
(* encrypt and decrypt applied to one message under the key pair a         *)
(* verifier generated: every pair generate_keys(16) can return, and a      *)
(* sample of the messages below n that holds the small ones, the multiples *)
(* of the two prime factors of n and the largest ones.                     *)
(***************************************************************************)
MessageSample(n) ==
    LET factors == {f \in KeyPrimes(bit_length) : n % f = 0}
    IN (0..MaxMessage)
       \cup {k * f : k \in 1..MaxMultiple, f \in factors}
       \cup {n - f : f \in factors}
       \cup {n - 1}

InitKeys ==
    /\ InitUsers({}, {})
    /\ InitVerifiers({}, KeyPrimes(bit_length), KeyPrimes(bit_length))
    /\ err = "none"
    /\ NoBaseline
    /\ NoRun
    /\ probe_in \in {<<m>> : m \in MessageSample(pbc_pubkey[2])}
    /\ probe_out = <<>>

\* c = encrypt(m, pubkey)
EncryptMessage ==
    /\ probe_out = <<>>
    /\ probe_out' = <<"encrypt", encrypt(probe_in[1], pbc_pubkey)>>
    /\ UNCHANGED <<userVars, cbcVars, pbcVars, err, ordVars, runVars, probe_in>>

\* decrypt(c, privkey) for the c just computed
DecryptCiphertext ==
    /\ probe_out # <<>>
    /\ probe_out[1] = "encrypt"
    /\ probe_out' = <<"encrypt-decrypt", decrypt(probe_out[2], pbc_privkey)>>
    /\ UNCHANGED <<userVars, cbcVars, pbcVars, err, ordVars, runVars, probe_in>>

\* m = decrypt(c, privkey)
DecryptMessage ==
    /\ probe_out = <<>>
    /\ probe_out' = <<"decrypt", decrypt(probe_in[1], pbc_privkey)>>
    /\ UNCHANGED <<userVars, cbcVars, pbcVars, err, ordVars, runVars, probe_in>>

\* encrypt(m, pubkey) for the m just computed
EncryptPlaintext ==
    /\ probe_out # <<>>
    /\ probe_out[1] = "decrypt"
    /\ probe_out' = <<"decrypt-encrypt", encrypt(probe_out[2], pbc_pubkey)>>
    /\ UNCHANGED <<userVars, cbcVars, pbcVars, err, ordVars, runVars, probe_in>>

NextKeys ==
    \/ EncryptMessage
    \/ DecryptCiphertext
    \/ DecryptMessage
    \/ EncryptPlaintext

SpecKeys == InitKeys /\ [][NextKeys]_vars

(***************************************************************************)
(* Two users creating their commitments with g = vc_keygen() and the       *)
(* default modulus, over the low end of the bid range and the bids around  *)
(* max_safe_bid.                                                           *)
(***************************************************************************)
CommitBids == (1..MaxCommitBid) \cup {max_safe_bid - 1, max_safe_bid, max_safe_bid + 1}

InitCommit ==
    /\ InitUsers(ObjUsers, CommitBids)
    /\ InitVerifiers({}, SmallKeyPrimes, SmallKeyPrimes)
    /\ err = "none"
    /\ NoBaseline
    /\ NoRun
    /\ NoProbe

NextCommit == CreateCommitment

SpecCommit == InitCommit /\ [][NextCommit]_vars

(***************************************************************************)
(* Users whose methods are called in any order with any generator, modulus *)
(* and public key.                                                         *)
(***************************************************************************)
InitUser ==
    /\ InitUsers(ObjUsers, UserBids)
    /\ InitVerifiers({1}, LargeKeyPrimes, SmallKeyPrimes)
    /\ err = "none"
    /\ NoBaseline
    /\ NoRun
    /\ NoProbe

\* the public keys a user can be handed
PublicKeys == {cbc_pubkey[c] : c \in DOMAIN users} \cup {pbc_pubkey}

CreateCommitmentWith ==
    /\ \E u \in DOMAIN bid_value, g \in Generators, modulus \in Moduli :
          create_commitment(u, g, modulus)
    /\ UNCHANGED <<runVars, probeVars>>

EncryptCommitmentUnder ==
    /\ \E u \in DOMAIN bid_value, pubkey \in PublicKeys :
          encrypt_commitment(u, pubkey)
    /\ UNCHANGED <<runVars, probeVars>>

NextUser ==
    \/ CreateCommitmentWith
    \/ EncryptCommitmentUnder

SpecUser == InitUser /\ [][NextUser]_vars

\* a user with a bid past max_safe_bid and a user with the bid 5, under the
\* calls that feed the two rankings
InitAnyBid ==
    /\ InitUser
    /\ bid_value = [u \in ObjUsers |-> IF u = 1 THEN 1001 ELSE 5]

SpecAnyBid == InitAnyBid /\ [][Next]_vars

\* two users with the bids 14 and 30, under the calls that hand entries from
\* the users to the CBC verifier and from the CBC verifier to the PBC
\* verifier
InitHandOver ==
    /\ Init
    /\ bid_value = [u \in ObjUsers |-> IF u = 1 THEN 14 ELSE 30]

SpecHandOver == InitHandOver /\ [][Next]_vars

(***************************************************************************)
(* generate_keys(bit_length) statement by statement: probe_in holds        *)
(* bit_length, probe_out the locals p and q and, from "e = 65537" on,      *)
(* p, q and e; it returns KeyPairOf(p, q, e).  n, phi and d are not kept:  *)
(* at bit_length 40 they are above 2^31.  The function keeps running until *)
(* it returns: weak fairness of its steps.                                 *)
(***************************************************************************)
InitKeyGen ==
    /\ InitUsers({}, {})
    /\ InitVerifiers({}, SmallKeyPrimes, SmallKeyPrimes)
    /\ err = "none"
    /\ NoBaseline
    /\ pc = "draw_p"
    /\ run_M = 0
    /\ bidder_counts = <<>>
    /\ cbc_idx = 0
    /\ user_idx = 0
    /\ probe_in \in {<<bits>> : bits \in KeyBitLengths}
    /\ probe_out = <<>>

\* the outcomes of randprime(lower, upper) at this bit length
DrawnPrimes(bits) == IF bits > 16 THEN WideKeyPrimes ELSE KeyPrimes(bits)

\* p = randprime(lower, upper); q = p
KeyGenDrawP ==
    /\ pc = "draw_p"
    /\ \E p \in DrawnPrimes(probe_in[1]) : probe_out' = <<p, p>>
    /\ pc' = "draw_q"
    /\ UNCHANGED <<userVars, cbcVars, pbcVars, err, ordVars, run_M,
                   bidder_counts, cbc_idx, user_idx, probe_in>>

\* while q == p: q = randprime(lower, upper)
KeyGenDrawQ ==
    /\ pc = "draw_q"
    /\ probe_out[2] = probe_out[1]
    /\ \E q \in DrawnPrimes(probe_in[1]) : probe_out' = <<probe_out[1], q>>
    /\ pc' = "draw_q"
    /\ UNCHANGED <<userVars, cbcVars, pbcVars, err, ordVars, run_M,
                   bidder_counts, cbc_idx, user_idx, probe_in>>

\* the loop left: n = p * q, phi = (p-1)*(q-1), e = 65537
KeyGenFirstE ==
    /\ pc = "draw_q"
    /\ probe_out[2] # probe_out[1]
    /\ probe_out' = <<probe_out[1], probe_out[2], DefaultE>>
    /\ pc' = "test_e"
    /\ UNCHANGED <<userVars, cbcVars, pbcVars, err, ordVars, run_M,
                   bidder_counts, cbc_idx, user_idx, probe_in>>

\* while phi % e == 0: e = randprime(3, 1000)
KeyGenDrawE ==
    /\ pc = "test_e"
    /\ PhiMod(probe_out[1], probe_out[2], probe_out[3]) = 0
    /\ \E e \in SmallExponents :
          probe_out' = <<probe_out[1], probe_out[2], e>>
    /\ pc' = "test_e"
    /\ UNCHANGED <<userVars, cbcVars, pbcVars, err, ordVars, run_M,
                   bidder_counts, cbc_idx, user_idx, probe_in>>

\* the loop left: d = pow(e, -1, phi), return (e, n), (d, n)
KeyGenReturn ==
    /\ pc = "test_e"
    /\ PhiMod(probe_out[1], probe_out[2], probe_out[3]) # 0
    /\ pc' = "returned"
    /\ UNCHANGED <<userVars, cbcVars, pbcVars, err, ordVars, run_M,
                   bidder_counts, cbc_idx, user_idx, probeVars>>

NextKeyGen ==
    \/ KeyGenDrawP
    \/ KeyGenDrawQ
    \/ KeyGenFirstE
    \/ KeyGenDrawE
    \/ KeyGenReturn

SpecKeyGen == InitKeyGen /\ [][NextKeyGen]_vars /\ WF_vars(NextKeyGen)

(***************************************************************************)
(* verify_commitment_ordering(g, modulus, max_bid) applied on its own:     *)
(* probe_in holds its arguments, probe_out the value it returns.           *)
(***************************************************************************)
test_bids == <<50, 100, 150, 200, 250, 300>>

\* the generators, moduli and values of max_bid the guard is called with:
\* 300 is the trial script's max_bid, 1000 the default
GuardGenerators == 2..6
GuardModuli == {1009, 65537, DefaultModulus}
GuardMaxBids == {0, 1, 2, 10, 31, 40, 49, 50, 99, 100, 300, 1000}

\* the values of the list commitments, one per test bid <= max_bid
GuardCommitments(g, modulus, max_bid) ==
    LET tested == SelectSeq(test_bids, LAMBDA bid : bid <= max_bid)
    IN [i \in 1..Len(tested) |-> PowMod(g, tested[i], modulus)]

\* what verify_commitment_ordering returns
verify_commitment_ordering(g, modulus, max_bid) ==
    LET commitments == GuardCommitments(g, modulus, max_bid)
    IN \A i \in 1..(Len(commitments) - 1) : commitments[i] < commitments[i + 1]

InitGuard ==
    /\ InitUsers({}, {})
    /\ InitVerifiers({}, SmallKeyPrimes, SmallKeyPrimes)
    /\ err = "none"
    /\ NoBaseline
    /\ NoRun
    /\ probe_in \in GuardGenerators \X GuardModuli \X GuardMaxBids
    /\ probe_out = <<>>

VerifyCommitmentOrdering ==
    /\ probe_out = <<>>
    /\ probe_out' = <<verify_commitment_ordering(probe_in[1], probe_in[2],
                                                 probe_in[3])>>
    /\ UNCHANGED <<userVars, cbcVars, pbcVars, err, ordVars, runVars, probe_in>>

NextGuard == VerifyCommitmentOrdering

SpecGuard == InitGuard /\ [][NextGuard]_vars

(***************************************************************************)
(* The two rankings (C7, C8, C9).                                          *)
(***************************************************************************)
\* the place entry i of list takes when list is put in descending order of
\* value with entries of equal value kept in their order of arrival
RankOf(list, i) ==
    1 + Cardinality({j \in 1..Len(list) :
                        \/ list[j][2] > list[i][2]
                        \/ list[j][2] = list[i][2] /\ j < i})

\* result holds the first min(M, count) entries of list by RankOf
IsStableTop(result, list, M) ==
    /\ Len(result) = Min(M, Len(list))
    /\ \A i \in 1..Len(list) :
          RankOf(list, i) <= Len(result) => result[RankOf(list, i)] = list[i]

\* C7: select_top_M(M) and select_final_winners(M) return the first
\* min(M, count) entries of their decrypted list in descending order of
\* decrypted value, entries of equal value in their order in the input
\* list, so that no entry is dropped in favour of a later entry of equal
\* value (M a count, 0 <= M).
C7_StableDescendingSelection ==
    [][/\ \A c \in DOMAIN users, M \in 0..MaxM :
            select_top_M(c, M) =>
                IsStableTop(top_M_winners'[c], decrypted_commitments[c], M)
       /\ \A M \in 0..MaxM :
            select_final_winners(M) =>
                IsStableTop(final_winners', all_decrypted_commitments, M)]_vars

\* both rankings have kept the earlier of two entries of equal value that
\* belong to different users
C7_Witness ==
    /\ \E c \in DOMAIN users :
          /\ Len(decrypted_commitments[c]) = 2
          /\ decrypted_commitments[c][1][2] = decrypted_commitments[c][2][2]
          /\ decrypted_commitments[c][1][1] # decrypted_commitments[c][2][1]
          /\ top_M_winners[c] = <<decrypted_commitments[c][1]>>
    /\ Len(all_decrypted_commitments) = 2
    /\ all_decrypted_commitments[1][2] = all_decrypted_commitments[2][2]
    /\ all_decrypted_commitments[1][1] # all_decrypted_commitments[2][1]
    /\ final_winners = <<all_decrypted_commitments[1]>>

\* C8: select_top_M(M) never returns more than min(M, registered users)
\* entries and select_final_winners(M) never more than M, after any
\* sequence of calls (M a count, 0 <= M).
C8_SelectionSizeBound ==
    [][/\ \A c \in DOMAIN users, M \in 0..MaxM :
            select_top_M(c, M) =>
                Len(top_M_winners'[c]) <= Min(M, Len(users[c]))
       /\ \A M \in 0..MaxM :
            select_final_winners(M) => Len(final_winners') <= M]_vars

\* a CBC ranking cut by M below its roster, a roster member without a
\* ciphertext, and a PBC ranking cut below its pool
C8_Witness ==
    /\ \E c \in DOMAIN users :
          /\ Len(users[c]) = 2
          /\ Len(decrypted_commitments[c]) = 1
          /\ Len(top_M_winners[c]) = 1
    /\ Len(all_decrypted_commitments) = 2
    /\ Len(final_winners) = 1

\* select_top_M(M) on CBC c, called now, would change nothing: it would
\* return and store the list that is stored already
SecondSelectTopMSame(c, M) == ENABLED (select_top_M(c, M) /\ UNCHANGED vars)

SecondSelectFinalSame(M) == ENABLED (select_final_winners(M) /\ UNCHANGED vars)

\* C9: select_top_M(M) leaves decrypted_commitments and the roster as they
\* were, and a second call right after it returns and stores the same list;
\* likewise select_final_winners(M) and all_decrypted_commitments.
C9_IdempotentSelection ==
    [][/\ \A c \in DOMAIN users, M \in 0..MaxM :
            select_top_M(c, M) =>
                /\ decrypted_commitments' = decrypted_commitments
                /\ users' = users
                /\ SecondSelectTopMSame(c, M)'
       /\ \A M \in 0..MaxM :
            select_final_winners(M) =>
                /\ all_decrypted_commitments' = all_decrypted_commitments
                /\ all_encrypted_winners' = all_encrypted_winners
                /\ SecondSelectFinalSame(M)']_vars

\* both rankings have reordered their input
C9_Witness ==
    /\ \E c \in DOMAIN users :
          /\ Len(decrypted_commitments[c]) = 2
          /\ decrypted_commitments[c][1][2] < decrypted_commitments[c][2][2]
          /\ top_M_winners[c] =
                 <<decrypted_commitments[c][2], decrypted_commitments[c][1]>>
    /\ Len(all_decrypted_commitments) = 2
    /\ all_decrypted_commitments[1][2] < all_decrypted_commitments[2][2]
    /\ final_winners =
           <<all_decrypted_commitments[2], all_decrypted_commitments[1]>>

(***************************************************************************)
(* The baseline (C2).                                                      *)
(***************************************************************************)
RECURSIVE Concat(_, _)
\* the lists groups[k], groups[k+1], ... one after the other
Concat(groups, k) ==
    IF k \notin DOMAIN groups THEN <<>>
    ELSE groups[k] \o Concat(groups, k + 1)

\* a list of bidders as (bidder, bid) pairs
WithBids(s) == [i \in 1..Len(s) |-> <<s[i], bid_value[s[i]]>>]

\* C2: after exactly one collect_winners, determine_global_winners returns
\* the first min(M, total bidders) entries of a stable descending sort by
\* bid of all bidders taken child by child in registration order (M >= 0,
\* the same for the child chains and the parent).
C2_BaselineIsGlobalTopM ==
    [][determine_global_winners /\ collect_calls = 1 =>
          IsStableTop(WithBids(global_winners'),
                      WithBids(Concat(bidders, 1)), parent_M)]_vars

\* one collect_winners, then determine_global_winners with M = 2 over three
\* bidders: a bidder of the second child is ranked first, the second place
\* goes to the earlier of two bidders of equal bid in different children,
\* and the later one is left out
C2_Witness ==
    /\ collect_calls = 1
    /\ parent_M = 2
    /\ DOMAIN bid_value = 1..3
    /\ Len(bidders[1]) = 1
    /\ bid_value[1] = bid_value[3]
    /\ bid_value[2] > bid_value[1]
    /\ global_winners = <<2, 1>>

(***************************************************************************)
(* The vector commitment (C10).                                            *)
(***************************************************************************)
\* C10: compute_vector_commitment called while final_winners or
\* random_values is empty raises its ValueError and leaves
\* vector_commitment as it was.
C10_MissingInputs ==
    [][compute_vector_commitment(pbc_pubkey[2])
          /\ (final_winners = <<>> \/ random_values = <<>>) =>
             /\ err' = "MissingInputs"
             /\ vector_commitment' = vector_commitment]_vars

\* the call has failed for want of coefficients after an earlier call had
\* stored a commitment, which is still there
C10_Witness ==
    /\ err = "MissingInputs"
    /\ final_winners # <<>>
    /\ random_values = <<>>
    /\ vector_commitment # None

(***************************************************************************)
(* The two protocols on one population (C1, C4, C6).                       *)
(***************************************************************************)
\* the users of a list of (user, value) pairs
UsersOf(list) == {list[i][1] : i \in 1..Len(list)}

\* the bidders of a list of bidders
Members(list) == {list[i] : i \in 1..Len(list)}

\* C1: when run_auction has returned (every bid was accepted by
\* create_commitment) with M >= 1, the users of final_winners are the
\* bidders the baseline returned for the same population and split.
C1_CrossProtocolAgreement ==
    pc = "done" /\ run_M >= 1 => UsersOf(final_winners) = Members(global_winners)

\* C4: every value handed to encrypt is below the modulus of the key it is
\* encrypted under: the commitment in encrypt_commitment, and each
\* decrypted winner value in encrypt_winners_for_pbc.
C4_ModulusAbovePlaintexts ==
    [][/\ \A u \in DOMAIN bid_value, c \in DOMAIN users :
            encrypt_commitment(u, cbc_pubkey[c]) /\ commitment[u] # None =>
                commitment[u] < cbc_pubkey[c][2]
       /\ \A c \in DOMAIN users :
            encrypt_winners_for_pbc(c, pbc_pubkey) =>
                \A i \in 1..Len(top_M_winners[c]) :
                    top_M_winners[c][i][2] < pbc_pubkey[2]]_vars

\* C6: in the reference scenario CBC 1 selects B, CBC 2 selects D, the PBC
\* selects D, and the vector commitment is D's stored commitment raised to
\* the drawn coefficient, modulo the PBC's n.
C6_ReferenceScenario ==
    pc = "done" =>
        /\ UsersOf(top_M_winners[1]) = {2}
        /\ UsersOf(top_M_winners[2]) = {4}
        /\ UsersOf(final_winners) = {4}
        /\ vector_commitment =
               PowMod(commitment[4], random_values[1], pbc_pubkey[2])

(***************************************************************************)
(* The RSA round trip (C5) and the order of commitments (C3).              *)
(***************************************************************************)
\* C5: under every key pair generate_keys can return, for a message m with
\* 0 <= m < n, decrypt(encrypt(m, pub), priv) and
\* encrypt(decrypt(m, priv), pub) are both m, also when m shares a factor
\* with n.
C5_RsaRoundTrip ==
    /\ probe_in # <<>> => probe_in[1] \in 0..(pbc_pubkey[2] - 1)
    /\ probe_out # <<>> /\ probe_out[1] \in {"encrypt-decrypt", "decrypt-encrypt"}
           => probe_out[2] = probe_in[1]

\* a round trip of a nonzero message that shares a factor with n
C5_Witness ==
    /\ probe_out # <<>>
    /\ probe_out[1] = "decrypt-encrypt"
    /\ probe_in[1] > MaxMessage
    /\ Gcd(probe_in[1], pbc_pubkey[2]) > 1
    /\ probe_out[2] = probe_in[1]

\* C3: of two users whose bids create_commitment accepted with g = 2 and
\* the default modulus, the one with the greater bid holds the greater
\* commitment.
C3_OrderPreservingCommitment ==
    \A u1 \in DOMAIN bid_value, u2 \in DOMAIN bid_value :
        /\ commitment[u1] # None
        /\ commitment[u2] # None
        /\ bid_value[u1] > bid_value[u2]
        => commitment[u1] > commitment[u2]

(***************************************************************************)
(* The User methods (C11, C12, C13).                                       *)
(***************************************************************************)
\* C11: create_commitment(g, modulus) raises exactly when the bid is above
\* 1000 and then changes neither commitment nor encrypted_commitment; for a
\* bid of at most 1000 it stores (and returns, "return self.commitment")
\* g^bid mod modulus, the modulus being 2^31-1 when none is given.
C11_BidOutOfRange ==
    [][\A u \in DOMAIN bid_value, g \in Generators, modulus \in Moduli :
          create_commitment(u, g, modulus) =>
              /\ (err' = "BidOutOfRange") <=> (bid_value[u] > 1000)
              /\ encrypted_commitment' = encrypted_commitment
              /\ \A v \in DOMAIN bid_value \ {u} :
                     commitment'[v] = commitment[v]
              /\ bid_value[u] > 1000 => commitment'[u] = commitment[u]
              /\ bid_value[u] <= 1000 =>
                     /\ err' = "none"
                     /\ commitment'[u] =
                            PowMod(g, bid_value[u],
                                   IF modulus = None THEN 2147483647
                                   ELSE modulus)]_vars

\* a call has just raised for a user with bid 1001, who holds no commitment,
\* while a user with bid 1000 holds pow(3, 1000, 1009) = 404
C11_Witness ==
    /\ err = "BidOutOfRange"
    /\ \E u \in DOMAIN bid_value, v \in DOMAIN bid_value :
          /\ bid_value[u] = 1001
          /\ commitment[u] = None
          /\ bid_value[v] = 1000
          /\ commitment[v] = 404

\* a user with a bid above 1000 holds no ciphertext and is in no list of
\* decrypted or selected entries
NeverRanked ==
    \A u \in DOMAIN bid_value :
        bid_value[u] > 1000 =>
            /\ encrypted_commitment[u] = None
            /\ \A c \in DOMAIN users :
                   /\ u \notin UsersOf(decrypted_commitments[c])
                   /\ u \notin UsersOf(top_M_winners[c])
            /\ u \notin UsersOf(final_winners)

\* C12: encrypt_commitment(pubkey) raises exactly when the user holds no
\* commitment and then leaves encrypted_commitment unset; otherwise it
\* stores commitment^e mod n.  A user whose create_commitment raised never
\* holds a ciphertext and is never in a CBC's decrypted or selected list.
C12_CommitmentNotCreated ==
    [][/\ \A u \in DOMAIN bid_value, c \in DOMAIN users :
            encrypt_commitment(u, cbc_pubkey[c]) =>
                /\ (err' = "CommitmentNotCreated") <=> (commitment[u] = None)
                /\ commitment' = commitment
                /\ commitment[u] = None => encrypted_commitment'[u] = None
                /\ commitment[u] # None =>
                       encrypted_commitment'[u] =
                           PowMod(commitment[u], cbc_pubkey[c][1],
                                  cbc_pubkey[c][2])
       /\ NeverRanked']_vars

\* encrypt_commitment has just raised for a registered user with bid 1001,
\* and the CBC has ranked the other registered user, who holds the
\* ciphertext pow(32, 65537, 32881) = 30602 of the commitment 2^5
C12_Witness ==
    /\ err = "CommitmentNotCreated"
    /\ \E u \in DOMAIN bid_value, v \in DOMAIN bid_value :
          /\ bid_value[u] = 1001
          /\ users[1] = <<u, v>>
          /\ bid_value[v] = 5
          /\ encrypted_commitment[v] = 30602
          /\ UsersOf(top_M_winners[1]) = {v}

\* C13: a commitment that is set is not changed by a later
\* create_commitment, and an encrypted_commitment that is set is not changed
\* by a later encrypt_commitment.
C13_WriteOnceUserState ==
    [][\A u \in DOMAIN bid_value :
          /\ commitment[u] # None => commitment'[u] = commitment[u]
          /\ encrypted_commitment[u] # None =>
                 encrypted_commitment'[u] = encrypted_commitment[u]]_vars

(***************************************************************************)
(* The CBC verifier's decryption and hand-over (C14, C15).                 *)
(***************************************************************************)
\* the roster positions of CBC c whose user holds a ciphertext
WithCiphertext(c) ==
    {i \in 1..Len(users[c]) : encrypted_commitment[users[c][i]] # None}

\* the k-th smallest of a set of positions
KthOf(positions, k) ==
    CHOOSE i \in positions : Cardinality({j \in positions : j <= i}) = k

\* one entry (user, decrypt(ciphertext, privkey)) per roster position of
\* CBC c whose user holds a ciphertext, in roster order
DecryptedOf(c) ==
    LET positions == WithCiphertext(c)
    IN [k \in 1..Cardinality(positions) |->
           LET u == users[c][KthOf(positions, k)]
           IN <<u, PowMod(encrypted_commitment[u], cbc_privkey[c][1],
                          cbc_privkey[c][2])>>]

\* C14: decrypt_commitments leaves in decrypted_commitments one entry
\* (user, decrypt(ciphertext, privkey)) per roster position whose user holds
\* a ciphertext, in roster order, and nothing else; it changes neither the
\* roster nor a ciphertext nor the key, the only inputs of that list, so
\* that a second call right after it yields the list that is already there.
C14_CbcDecryption ==
    [][\A c \in DOMAIN users :
          \* a step that changes a field decrypt_commitments leaves alone is
          \* not one of its steps
          (UNCHANGED <<userVars, users, top_M_winners, pbcVars>>
               /\ decrypt_commitments(c)) =>
              /\ decrypted_commitments'[c] = DecryptedOf(c)
              /\ users' = users
              /\ encrypted_commitment' = encrypted_commitment
              /\ cbc_privkey' = cbc_privkey
              /\ Len(decrypted_commitments'[c]) <= Len(users[c])]_vars

\* the roster holds a user without a ciphertext ahead of a user with one,
\* and the decrypted list holds the second user only
C14_Witness ==
    /\ Len(users[1]) = 2
    /\ users[1][1] # users[1][2]
    /\ encrypted_commitment[users[1][1]] = None
    /\ encrypted_commitment[users[1][2]] # None
    /\ Len(decrypted_commitments[1]) = 1
    /\ decrypted_commitments[1][1][1] = users[1][2]

\* C15: encrypt_winners_for_pbc(pbc_pubkey) changes neither top_M_winners
\* nor decrypted_commitments nor the roster, and returns one pair
\* (user, encrypt(value, pbc_pubkey)) per entry of top_M_winners, in the
\* same order and with the same users.
C15_EncryptWinnersFrame ==
    [][\A c \in DOMAIN users :
          (UNCHANGED <<userVars, pbcVars>>
               /\ encrypt_winners_for_pbc(c, pbc_pubkey)) =>
              LET winners == top_M_winners[c]
                  returned == encrypted_winners'[c]
              IN /\ top_M_winners' = top_M_winners
                 /\ decrypted_commitments' = decrypted_commitments
                 /\ users' = users
                 /\ Len(returned) = Len(winners)
                 /\ \A i \in 1..Len(winners) :
                        /\ returned[i][1] = winners[i][1]
                        /\ returned[i][2] =
                               PowMod(winners[i][2], pbc_pubkey[1],
                                      pbc_pubkey[2])]_vars

\* two winners of different users have been encrypted for the PBC and are
\* still in top_M_winners
C15_Witness ==
    /\ Len(top_M_winners[1]) = 2
    /\ top_M_winners[1][1][1] # top_M_winners[1][2][1]
    /\ Len(encrypted_winners[1]) = 2
    /\ encrypted_winners[1][1][1] = top_M_winners[1][1][1]
    /\ encrypted_winners[1][2][1] = top_M_winners[1][2][1]
    /\ encrypted_winners[1][1][2] # top_M_winners[1][1][2]

(***************************************************************************)
(* The PBC verifier's pool (C16).                                          *)
(***************************************************************************)
\* C16: collect_encrypted_winners appends its argument to
\* all_encrypted_winners, so that the pool, empty at construction, is the
\* concatenation of the contributions in call order with no record lost or
\* altered; decrypt_all_commitments then yields a list of the same length
\* with the same users in the same order.
C16_PoolOrder ==
    [][/\ \A c \in DOMAIN users :
            (UNCHANGED <<userVars, cbcVars>>
                 /\ collect_encrypted_winners(encrypted_winners[c])) =>
                LET old == all_encrypted_winners
                    new == all_encrypted_winners'
                    given == encrypted_winners[c]
                IN /\ Len(new) = Len(old) + Len(given)
                   /\ \A i \in 1..Len(old) : new[i] = old[i]
                   /\ \A j \in 1..Len(given) : new[Len(old) + j] = given[j]
       /\ (UNCHANGED <<userVars, cbcVars>> /\ decrypt_all_commitments) =>
                LET pool == all_encrypted_winners
                    result == all_decrypted_commitments'
                IN /\ all_encrypted_winners' = pool
                   /\ Len(result) = Len(pool)
                   /\ \A i \in 1..Len(pool) :
                          /\ result[i][1] = pool[i][1]
                          /\ result[i][2] =
                                 PowMod(pool[i][2], pbc_privkey[1],
                                        pbc_privkey[2])]_vars

\* the pool holds two records of different users, and the decrypted list
\* holds the same users in the same order
C16_Witness ==
    /\ Len(all_encrypted_winners) = 2
    /\ all_encrypted_winners[1][1] # all_encrypted_winners[2][1]
    /\ Len(all_decrypted_commitments) = 2
    /\ all_decrypted_commitments[1][1] = all_encrypted_winners[1][1]
    /\ all_decrypted_commitments[2][1] = all_encrypted_winners[2][1]

(***************************************************************************)
(* The order of run_auction's steps (C17, C19, C20).                       *)
(***************************************************************************)
\* the users run_auction creates for CBC k
UsersOfCBC(k) == (Offset(k) + 1)..(Offset(k) + bidder_counts[k])

\* CBC k's commitments, encryptions, decryption and selection are complete
PipelineComplete(k) ==
    /\ Len(users[k]) = bidder_counts[k]
    /\ \A u \in UsersOfCBC(k) :
           commitment[u] # None /\ encrypted_commitment[u] # None
    /\ UsersOf(decrypted_commitments[k]) = UsersOfCBC(k)
    /\ Len(top_M_winners[k]) = Min(run_M, bidder_counts[k])

\* no step of CBC k has been taken
Untouched(k) ==
    /\ users[k] = <<>>
    /\ decrypted_commitments[k] = <<>>
    /\ top_M_winners[k] = <<>>
    /\ \A u \in UsersOfCBC(k) :
           commitment[u] = None /\ encrypted_commitment[u] = None

RECURSIVE PoolAfter(_)
\* the number of records the CBCs 1..k submit
PoolAfter(k) ==
    IF k = 0 THEN 0 ELSE PoolAfter(k - 1) + Min(run_M, bidder_counts[k])

\* C17: when a CBC's winners are about to be passed to
\* collect_encrypted_winners its commitments, encryptions, decryption and
\* selection are complete; while a step of CBC k has been taken, every CBC
\* before it has completed and submitted; and the PBC has decrypted only a
\* pool that holds the submissions of all N CBCs.
C17_PipelineOrdering ==
    LET N == Len(bidder_counts)
    IN /\ pc = "collect" =>
              /\ PipelineComplete(cbc_idx)
              /\ UsersOf(encrypted_winners[cbc_idx])
                     = UsersOf(top_M_winners[cbc_idx])
              /\ Len(all_encrypted_winners) = PoolAfter(cbc_idx - 1)
       /\ \A k \in 1..N :
              ~Untouched(k) =>
                  /\ \A j \in 1..(k - 1) : PipelineComplete(j)
                  /\ Len(all_encrypted_winners) >= PoolAfter(k - 1)
       /\ (pc \in {"select_final", "random", "vc", "done"}
               \/ all_decrypted_commitments # <<>>) =>
              /\ \A k \in 1..N : PipelineComplete(k)
              /\ Len(all_encrypted_winners) = PoolAfter(N)
              /\ Len(all_decrypted_commitments) = PoolAfter(N)

\* run_auction has returned after two CBCs with users submitted a winner
\* each
C17_Witness ==
    /\ pc = "done"
    /\ run_M = 1
    /\ \A k \in DOMAIN bidder_counts : bidder_counts[k] >= 1
    /\ Len(all_decrypted_commitments) = 2
    /\ all_decrypted_commitments[1][1] \in UsersOfCBC(1)
    /\ all_decrypted_commitments[2][1] \in UsersOfCBC(2)

\* the users whose bid create_commitment rejects
OverBid == {u \in DOMAIN bid_value : bid_value[u] > 1000}

\* the first of them in run_auction's order
FirstOverBid == CHOOSE u \in OverBid : \A v \in OverBid : u <= v

\* C19: when a user's bid is above 1000, run_auction never returns; it
\* stops at the create_commitment of the first such user with the
\* ValueError, takes no step after that, has processed neither that user
\* further nor any later user or CBC, and the PBC has neither decrypted nor
\* ranked nor committed to anything.
C19_AbortOnOverBid ==
    [][/\ pc # "failed"
       /\ (OverBid # {} =>
              /\ pc' # "done"
              /\ pc' = "failed" =>
                     /\ err' = "BidOutOfRange"
                     /\ Offset(cbc_idx') + user_idx' = FirstOverBid
              /\ \A u \in DOMAIN bid_value :
                     /\ u >= FirstOverBid => encrypted_commitment'[u] = None
                     /\ u >= FirstOverBid => commitment'[u] = None
              /\ \A k \in DOMAIN users :
                     FirstOverBid <= Offset(k) + bidder_counts[k] =>
                         /\ decrypted_commitments'[k] = <<>>
                         /\ top_M_winners'[k] = <<>>
                         /\ FirstOverBid <= Offset(k) => users'[k] = <<>>
              /\ all_decrypted_commitments' = <<>>
              /\ final_winners' = <<>>
              /\ random_values' = <<>>
              /\ vector_commitment' = None)]_vars

\* run_auction has stopped at a user of the second CBC, with a user after
\* it, when the first CBC had already submitted a winner
C19_Witness ==
    /\ pc = "failed"
    /\ err = "BidOutOfRange"
    /\ cbc_idx = 2
    /\ user_idx = 1
    /\ bidder_counts[2] = 2
    /\ Len(all_encrypted_winners) = 1
    /\ all_decrypted_commitments = <<>>

C18_KeyGenerationTerminates == <>(pc \in {"returned", "exhausted"})

(***************************************************************************)
(* The key pair generate_keys returns (C21).                               *)
(***************************************************************************)
\* C21: a pair ((e, n), (d, n)) that generate_keys(bit_length) returns has
\* n = p * q for two distinct primes p, q of
\* [2^(bit_length/2 - 1), 2^(bit_length/2) - 1], gcd(e, phi) = 1 and
\* e * d mod phi = 1 for phi = (p-1)*(q-1); and the test "phi % e == 0"
\* turns away exactly the e that share a factor with phi.  gcd(e, phi) is
\* gcd(e, phi % e); n and d are looked at where they are below 2^31.
C21_KeyPairValidity ==
    /\ pc = "test_e" =>
           LET r == PhiMod(probe_out[1], probe_out[2], probe_out[3])
           IN (r = 0) <=> (Gcd(probe_out[3], r) # 1)
    /\ pc = "returned" =>
           LET bits == probe_in[1]
               p == probe_out[1]
               q == probe_out[2]
               e == probe_out[3]
           IN /\ p # q
              /\ IsPrime(p) /\ IsPrime(q)
              /\ {p, q} \subseteq (2 ^ (bits \div 2 - 1))..(2 ^ (bits \div 2) - 1)
              /\ Gcd(e, PhiMod(p, q, e)) = 1
              /\ bits <= 16 =>
                     LET keys == KeyPairOf(p, q, e)
                         phi == (p - 1) * (q - 1)
                     IN /\ keys[1] = <<e, p * q>>
                        /\ keys[2][2] = p * q
                        /\ keys[2][1] \in 0..(phi - 1)
                        /\ MulMod(e % phi, keys[2][1], phi) = 1

\* generate_keys(40) has returned with an exponent other than 65537: 65537
\* divides phi, the loop was entered and a prime that does not divide phi
\* was drawn
C21_Witness ==
    /\ pc = "returned"
    /\ probe_in[1] = 40
    /\ probe_out[1] = 917519
    /\ probe_out[3] # DefaultE

(***************************************************************************)
(* The value of the vector commitment (C22).                               *)
(***************************************************************************)
RECURSIVE PowerProduct(_, _, _)
\* v_1^r_1 * ... * v_k^r_k, an integer
PowerProduct(winners, rs, k) ==
    IF k = 0 THEN 1
    ELSE PowerProduct(winners, rs, k - 1) * winners[k][2] ^ rs[k]

\* C22: with final_winners = [(u_1, v_1), ..., (u_k, v_k)] and random_values
\* = [r_1, ..., r_M] both non-empty and k <= M, compute_vector_commitment(p)
\* raises nothing and stores (and returns, "return self.vector_commitment")
\* (v_1^r_1 * ... * v_k^r_k) mod p, built from the first k coefficients; the
\* value is in 0..p-1 and final_winners and random_values stay as they were.
C22_VectorCommitmentValue ==
    [][\A p \in VectorModuli :
          /\ compute_vector_commitment(p)
          /\ final_winners # <<>>
          /\ random_values # <<>>
          /\ Len(final_winners) <= Len(random_values)
          => /\ err' = "none"
             /\ vector_commitment' =
                    PowerProduct(final_winners, random_values,
                                 Len(final_winners)) % p
             /\ vector_commitment' \in 0..(p - 1)
             /\ final_winners' = final_winners
             /\ random_values' = random_values]_vars

\* one final winner with the value 3 and the coefficients 3 and 1:
\* compute_vector_commitment(7) has stored 3^3 mod 7 = 6
C22_Witness ==
    /\ err = "none"
    /\ probe_in = <<7>>
    /\ Len(final_winners) = 1
    /\ final_winners[1][2] = 3
    /\ random_values = <<3, 1>>
    /\ vector_commitment = 6

(***************************************************************************)
(* Contributions that arrive late (C23).                                   *)
(***************************************************************************)
\* C23: whenever select_final_winners(M) runs, all_decrypted_commitments
\* holds one entry per entry of all_encrypted_winners, for the same user
\* and with the decrypted value: no contribution collected after
\* decrypt_all_commitments is left out of the ranking.
C23_LateContributions ==
    [][\A M \in 0..MaxM :
          select_final_winners(M) =>
              all_decrypted_commitments =
                  DecryptPool(all_encrypted_winners, pbc_privkey)]_vars

(***************************************************************************)
(* Agreement of the two protocols where no value wraps (C24).              *)
(***************************************************************************)
\* the CBC run_auction registers user u with
CBCOf(u) == CHOOSE k \in DOMAIN bidder_counts : u \in UsersOfCBC(k)

\* g^bid is below the commitment modulus for every bid of the population,
\* and below the n of the user's CBC and of the PBC
NothingWraps ==
    \A u \in DOMAIN bid_value :
        /\ bid_value[u] < BitLength(DefaultModulus)
        /\ vc_keygen ^ bid_value[u] < DefaultModulus
        /\ vc_keygen ^ bid_value[u] < cbc_pubkey[CBCOf(u)][2]
        /\ vc_keygen ^ bid_value[u] < pbc_pubkey[2]

\* C24: where nothing wraps and M >= 1, the users of final_winners are the
\* baseline's global winners in the same order, and the value the PBC
\* decrypted for each of them is the commitment the user holds.
C24_ConditionalAgreement ==
    pc \in {"random", "vc", "done"} /\ run_M >= 1 /\ NothingWraps =>
        /\ [i \in 1..Len(final_winners) |-> final_winners[i][1]]
               = global_winners
        /\ \A i \in 1..Len(final_winners) :
               final_winners[i][2] = commitment[final_winners[i][1]]

\* CBC 1 holds user 1 (bid 5), CBC 2 the users 2 (bid 14) and 3 (bid 5);
\* with M = 2 both protocols have returned user 2, then user 1, the earlier
\* of the two users with the bid 5
C24_Witness ==
    /\ pc = "done"
    /\ run_M = 2
    /\ bidder_counts = <<1, 2>>
    /\ bid_value = <<5, 14, 5>>
    /\ NothingWraps
    /\ global_winners = <<2, 1>>
    /\ final_winners = <<<<2, 16384>>, <<1, 32>>>>

(***************************************************************************)
(* The order of the CBCs' appends (C25).                                   *)
(***************************************************************************)
\* C25: the users select_final_winners(M) returns are the same for every
\* order in which the CBCs have appended their contributions: they are the
\* users it returns when the CBCs append in the order CBC 1, CBC 2.
C25_SubmissionOrderIndependence ==
    pc = "random" =>
        UsersOf(final_winners) =
            UsersOf(Slice(sorted(DecryptPool(Concat(encrypted_winners, 1),
                                             pbc_privkey)), run_M))

(***************************************************************************)
(* Winners named twice (C26).                                              *)
(***************************************************************************)
\* C26: no bidder is in the list determine_global_winners returns more
\* than once, also after collect_winners has been called more than once.
C26_NoDuplicateWinners ==
    [][determine_global_winners =>
          \A i \in 1..Len(global_winners'), j \in 1..Len(global_winners') :
              global_winners'[i] = global_winners'[j] => i = j]_vars

(***************************************************************************)
(* The failures of compute_vector_commitment (C27).                        *)
(***************************************************************************)
\* C27: after any select_final_winners(M1) and generate_random_values(M2),
\* compute_vector_commitment either raises the MissingInputs ValueError or
\* returns a value; it reads no coefficient that random_values does not
\* hold, and when it raises vector_commitment is as it was.
C27_OnlyMissingInputs ==
    [][compute_vector_commitment(pbc_pubkey[2]) =>
          /\ err' \in {"MissingInputs", "none"}
          /\ err' # "none" => vector_commitment' = vector_commitment]_vars

(***************************************************************************)
(* The ordering guard (C28).                                               *)
(***************************************************************************)
\* C28: verify_commitment_ordering(g, modulus, max_bid) returns True only
\* if g^v mod modulus grows with v over all the bids 1..max_bid.
C28_OrderingGuardSound ==
    probe_out = <<TRUE>> =>
        \A v \in 1..(probe_in[3] - 1) :
            PowMod(probe_in[1], v, probe_in[2])
                < PowMod(probe_in[1], v + 1, probe_in[2])

(***************************************************************************)
(* The ciphertext a user holds (C29).                                      *)
(***************************************************************************)
\* C29: an encrypted_commitment that is set is encrypt(commitment, k) of
\* the commitment the user holds, k being the public key last passed to
\* encrypt_commitment, which is one of the keys a user can be handed.
C29_CiphertextMatchesCommitment ==
    \A u \in DOMAIN bid_value :
        encrypted_commitment[u] # None =>
            \E k \in PublicKeys :
                encrypted_commitment[u] = encrypt(commitment[u], k)

(***************************************************************************)
(* The two tiers of run_auction (C30).                                     *)
(***************************************************************************)
\* the loop over the CBCs is over
CbcRoundOver ==
    \/ pc \in {"decrypt_all", "select_final", "random", "vc", "done"}
    \/ pc = "failed" /\ err = "MissingInputs"

\* select_final_winners has returned
FinalSelected == CbcRoundOver /\ pc \notin {"decrypt_all", "select_final"}

\* C30: in a run of run_auction with M >= 0 the pool holds sum_i min(M, n_i)
\* entries once the loop over the CBCs is over, final_winners holds
\* min(M, pool size) entries, the user of every final winner is a user of
\* top_M_winners of exactly one CBC, and no step changes a bid_value.
C30_TwoTierContainment ==
    [][/\ bid_value' = bid_value
       /\ (CbcRoundOver =>
              Len(all_encrypted_winners) = PoolAfter(Len(bidder_counts)))'
       /\ (FinalSelected =>
              /\ Len(final_winners) = Min(run_M, Len(all_encrypted_winners))
              /\ \A i \in 1..Len(final_winners) :
                     Cardinality({k \in DOMAIN users :
                         final_winners[i][1] \in UsersOf(top_M_winners[k])})
                         = 1)']_vars

\* a run over CBCs of one and two users with M = 2 has returned: the pool
\* holds three entries, and the two final winners come from different CBCs
C30_Witness ==
    /\ pc = "done"
    /\ run_M = 2
    /\ bidder_counts = <<1, 2>>
    /\ Len(all_encrypted_winners) = 3
    /\ Len(final_winners) = 2
    /\ final_winners[1][1] \in UsersOf(top_M_winners[2])
    /\ final_winners[2][1] \in UsersOf(top_M_winners[1])

====
